---- MODULE Spec2Model ----
(***************************************************************************)
(* Model of src/lib.rs of tx-custom-boot: generate_boot_dat builds the     *)
(* 256-byte boot.dat header of a payload and appends the payload.          *)
(*                                                                         *)
(* Representation                                                          *)
(*  - A byte is a record.  [v |-> n] is the literal byte n (0..255).       *)
(*    [sha |-> t, i |-> k] is byte k (0..31) of the SHA-256 digest of the  *)
(*    byte string whose encoding is t: SHA-256 is an uninterpreted,        *)
(*    collision-free function, so its output bytes are terms.              *)
(*  - A byte string (slice or Vec<u8>) is [head |-> s, rep |-> n]: the     *)
(*    bytes of the sequence s followed by n copies of RepByte.  This is    *)
(*    what lets a payload of 2^32 bytes be written down.                   *)
(*  - A length (usize) or a u32 is a pair of limbs [hi |-> h, lo |-> l]    *)
(*    of value h * 2^16 + l with l < 2^16, because the values around 2^32  *)
(*    do not fit the integers of the model checker.                        *)
(***************************************************************************)
EXTENDS Integers, Sequences, FiniteSets

\* ------------------------------------------------------------------ bounds
\* longest explicit part (head) of a payload
MaxLen == 2

\* ------------------------------------------------------------- arithmetic
Limb == 65536

Num(h, l) == [hi |-> h, lo |-> l]

Zero == Num(0, 0)

\* usize addition of a small number (wrapping is out of reach: a slice is
\* never longer than isize::MAX)
AddSmall(n, k) == Num(n.hi + ((n.lo + k) \div Limb), (n.lo + k) % Limb)

\* u32::MAX
U32Max == Num(Limb - 1, Limb - 1)

\* mutant: an `as u32` cast, which keeps the low 32 bits
u32_value_from_Cast(n) == [ok |-> TRUE, val |-> Num(n.hi % Limb, n.lo)]

\* conv::ValueFrom<usize> for u32: the value when it is in range, else an error
u32_value_from(n) ==
    IF n.hi < Limb THEN [ok |-> TRUE, val |-> n] ELSE [ok |-> FALSE, val |-> Zero]

\* ------------------------------------------------------------------ bytes
B(n) == [v |-> n]

IsLit(b) == "v" \in DOMAIN b

Lits(s) == [k \in 1..Len(s) |-> B(s[k])]

Zeros(n) == [k \in 1..n |-> B(0)]

\* the byte every long payload of the model is filled with
RepByte == B(255)

\* the bytes the explicit part of a payload is made of
ByteSamples == {10, 11}

Bytes(s) == [head |-> s, rep |-> Zero]

\* slice.len() / Vec::len()
ByteLen(bs) == AddSmall(bs.rep, Len(bs.head))

\* bs[a..b] for a range inside the explicit part
Slice(bs, a, b) == SubSeq(bs.head, a + 1, b)

\* bs[a..]
SliceFrom(bs, a) == [head |-> SubSeq(bs.head, a + 1, Len(bs.head)), rep |-> bs.rep]

\* mutant: the slice is appended without its last byte
extend_from_slice_OffByOne(vec, slice) ==
    IF slice.rep # Zero
    THEN [head |-> vec.head \o slice.head,
          rep |-> IF slice.rep.lo > 0 THEN Num(slice.rep.hi, slice.rep.lo - 1)
                  ELSE Num(slice.rep.hi - 1, Limb - 1)]
    ELSE [head |-> vec.head \o SubSeq(slice.head, 1, Len(slice.head) - 1), rep |-> Zero]

\* Vec::extend_from_slice (the Vec itself has no repeated part)
extend_from_slice(vec, slice) == [head |-> vec.head \o slice.head, rep |-> slice.rep]

\* mutant: u32::to_be_bytes
LeBytes_BigEndian(n) == << B(n.hi \div 256), B(n.hi % 256), B(n.lo \div 256), B(n.lo % 256) >>

\* u32::to_le_bytes, as BinWrite writes a u32 under #[binwrite(little)]
LeBytes(n) == << B(n.lo % 256), B(n.lo \div 256), B(n.hi % 256), B(n.hi \div 256) >>

\* ----------------------------------------------------------------- digest
DigestLen == 32

\* The encoding of a byte sequence as segments: a run of n equal literal
\* bytes, or n consecutive bytes of one digest.  Decode inverts it, so two
\* byte strings with the same encoding are the same byte string.

\* byte b follows byte a inside one segment
Continues(a, b) ==
    IF IsLit(a) THEN IsLit(b) /\ b.v = a.v
    ELSE ~IsLit(b) /\ b.sha = a.sha /\ b.i = a.i + 1

\* the positions of s where a segment starts
SegStarts(s) == { k \in 1..Len(s) : k = 1 \/ ~Continues(s[k - 1], s[k]) }

Encode(s) ==
    LET st == SegStarts(s)
        nth(j) == CHOOSE k \in st : Cardinality({ m \in st : m < k }) = j - 1
        end(j) == IF j = Cardinality(st) THEN Len(s) ELSE nth(j + 1) - 1
    IN [j \in 1..Cardinality(st) |->
            LET b == s[nth(j)]
                n == end(j) - nth(j) + 1
            IN IF IsLit(b) THEN [v |-> b.v, n |-> n]
               ELSE [sha |-> b.sha, from |-> b.i, n |-> n]]

RECURSIVE Decode(_)
Decode(segs) ==
    IF segs = << >> THEN << >>
    ELSE LET g == Head(segs)
         IN [k \in 1..g.n |->
                IF "v" \in DOMAIN g THEN B(g.v)
                ELSE [sha |-> g.sha, i |-> g.from + k - 1]] \o Decode(Tail(segs))

Term(bs) == [segs |-> Encode(bs.head), rep |-> bs.rep]

\* mutant: a digest one byte short
sha256_digest_Short(to_hash) ==
    [k \in 1..DigestLen - 1 |-> [sha |-> Term(to_hash), i |-> k - 1]]

\* Calc sha256 for a byte array: the 32 bytes of the digest, as a Vec<u8>
sha256_digest(to_hash) == [k \in 1..DigestLen |-> [sha |-> Term(to_hash), i |-> k - 1]]

\* Vec<u8> -> [u8; 0x20]
try_into(v) == IF Len(v) = 32 THEN [ok |-> TRUE, val |-> v]
               ELSE [ok |-> FALSE, val |-> Zeros(32)]

\* ----------------------------------------------------------------- header
Sha2Default == Zeros(32)

\* mutant: a padding that is not cleared
Pad2Default_Dirty == [k \in 1..144 |-> B(IF k = 144 THEN 1 ELSE 0)]

Pad2Default == Zeros(144)

BootDatInnerDefault ==
    [ ident   |-> Zeros(12),
      vers    |-> Zeros(4),
      sha2_s2 |-> Sha2Default,
      s2_dst  |-> Zero,
      s2_size |-> Zero,
      s2_enc  |-> Zero,
      pad     |-> Zeros(16),
      s3_size |-> Zero,
      pad2    |-> Pad2Default ]

BootDatHeaderDefault == [inner |-> BootDatInnerDefault, sha2_hdr |-> Sha2Default]

\* "Insane BOOT\0"
IdentA == << 73, 110, 115, 97, 110, 101, 32, 66, 79, 79, 84, 0 >>

\* "V1.0"
VersA == << 86, 49, 46, 48 >>

\* "CTCaer BOOT\0"
IdentB == << 67, 84, 67, 97, 101, 114, 32, 66, 79, 79, 84, 0 >>

\* "V2.5"
VersB == << 86, 50, 46, 53 >>

\* 0x4001_0000
S2Dst == Num(16385, 0)

\* BinWrite for Sha2 and Pad2: the items in order
WriteArray(a) == a

\* #[derive(BinWrite)] #[binwrite(little)] for BootDatInner: the fields in
\* declaration order
WriteInner(in) ==
    WriteArray(in.ident) \o WriteArray(in.vers) \o WriteArray(in.sha2_s2)
        \o LeBytes(in.s2_dst) \o LeBytes(in.s2_size) \o LeBytes(in.s2_enc)
        \o WriteArray(in.pad) \o LeBytes(in.s3_size) \o WriteArray(in.pad2)

\* #[derive(BinWrite)] for BootDatHeader: inner, then sha2_hdr
WriteHeader(h) == WriteInner(h.inner) \o WriteArray(h.sha2_hdr)

\* BinWrite::write into a Vec<u8>: appends, and cannot fail
VecWrite(vec, bytes) == [ok |-> TRUE, vec |-> [vec EXCEPT !.head = @ \o bytes]]

\* --------------------------------------------------------------- payloads
RECURSIVE SeqsUpTo(_, _)
SeqsUpTo(S, n) ==
    IF n = 0 THEN { << >> }
    ELSE LET shorter == SeqsUpTo(S, n - 1)
         IN shorter \cup { Append(s, x) : s \in {t \in shorter : Len(t) = n - 1}, x \in S }

\* lengths of the repeated part: 0, 1024, 2^32 - 1
RepLens == { Zero, Num(0, 1024), U32Max }

Payloads == { [head |-> Lits(s), rep |-> r] : s \in SeqsUpTo(ByteSamples, MaxLen), r \in RepLens }

\* ------------------------------------------------------------------ state
\* pc and the locals of generate_boot_dat, the result of the call, the
\* previous call (its payload and result), and the variant a caller would
\* like to get (generate_boot_dat has no parameter for it)
VARIABLES pc, payload, header, stage_2_sha256, inner_serialized,
          header_inner_sha256, serialized, result, prev, requested

vars == << pc, payload, header, stage_2_sha256, inner_serialized,
           header_inner_sha256, serialized, result, prev, requested >>

NoResult == [tag |-> "None", buf |-> Bytes(<< >>), err |-> "None"]

Ok(buf) == [tag |-> "Ok", buf |-> buf, err |-> "None"]

Err(e) == [tag |-> "Err", buf |-> Bytes(<< >>), err |-> e]

NoCall == [made |-> FALSE, payload |-> Bytes(<< >>), result |-> NoResult]

KnownVariants == { "A", "B" }

Init ==
    /\ pc = "idle"
    /\ payload = Bytes(<< >>)
    /\ header = BootDatHeaderDefault
    /\ stage_2_sha256 = << >>
    /\ inner_serialized = Bytes(<< >>)
    /\ header_inner_sha256 = << >>
    /\ serialized = Bytes(<< >>)
    /\ result = NoResult
    /\ prev = NoCall
    /\ requested = "A"

\* the function returns: its locals are dropped
Return(r) ==
    /\ pc' = "idle"
    /\ result' = r
    /\ header' = BootDatHeaderDefault
    /\ stage_2_sha256' = << >>
    /\ inner_serialized' = Bytes(<< >>)
    /\ header_inner_sha256' = << >>
    /\ serialized' = Bytes(<< >>)

\* mutant: the constants of the other known variant
Enter_VariantB(p) ==
    /\ pc = "idle"
    /\ pc' = "L143"
    /\ payload' = p
    /\ result' = NoResult
    /\ header' = [BootDatHeaderDefault EXCEPT !.inner.ident = Lits(IdentB),
                                             !.inner.vers = Lits(VersB)]
    /\ UNCHANGED << stage_2_sha256, inner_serialized, header_inner_sha256, serialized >>

\* mutant: the constants of the variant the caller would like
Enter_Requested(p) ==
    /\ pc = "idle"
    /\ pc' = "L143"
    /\ payload' = p
    /\ result' = NoResult
    /\ header' = [BootDatHeaderDefault EXCEPT
                    !.inner.ident = Lits(IF requested' = "B" THEN IdentB ELSE IdentA),
                    !.inner.vers = Lits(IF requested' = "B" THEN VersB ELSE VersA)]
    /\ UNCHANGED << stage_2_sha256, inner_serialized, header_inner_sha256, serialized >>

\* generate_boot_dat(p) is entered; lines 136-141
Enter(p) ==
    /\ pc = "idle"
    /\ pc' = "L143"
    /\ payload' = p
    /\ result' = NoResult
    /\ header' = [BootDatHeaderDefault EXCEPT !.inner.ident = Lits(IdentA),
                                             !.inner.vers = Lits(VersA)]
    /\ UNCHANGED << stage_2_sha256, inner_serialized, header_inner_sha256, serialized >>

\* a caller calls generate_boot_dat(p)
Call(p) ==
    /\ Enter(p)
    /\ UNCHANGED << prev, requested >>

\* a caller that keeps the payload and the result of its last call calls again
CallAgain(p) ==
    /\ Enter(p)
    /\ prev' = IF result.tag = "None" THEN prev
               ELSE [made |-> TRUE, payload |-> payload, result |-> result]
    /\ UNCHANGED requested

\* a caller that would like variant w calls generate_boot_dat(p)
CallFor(p, w) ==
    /\ requested' = w
    /\ Enter(p)
    /\ UNCHANGED prev

\* line 143
HashPayload ==
    /\ pc = "L143"
    /\ stage_2_sha256' = sha256_digest(payload)
    /\ pc' = "L144"
    /\ UNCHANGED << payload, header, inner_serialized, header_inner_sha256,
                    serialized, result, prev, requested >>

\* mutant: the digest is computed and never stored
SetSha2S2_Skip ==
    /\ pc = "L144"
    /\ pc' = "L145"
    /\ UNCHANGED << payload, header, stage_2_sha256, inner_serialized,
                    header_inner_sha256, serialized, result, prev, requested >>

\* line 144
SetSha2S2 ==
    /\ pc = "L144"
    /\ LET r == try_into(stage_2_sha256)
       IN IF r.ok
          THEN /\ header' = [header EXCEPT !.inner.sha2_s2 = r.val]
               /\ pc' = "L145"
               /\ UNCHANGED << stage_2_sha256, inner_serialized,
                               header_inner_sha256, serialized, result >>
          ELSE Return(Err("HashError"))
    /\ UNCHANGED << payload, prev, requested >>

\* line 145
SetS2Dst ==
    /\ pc = "L145"
    /\ header' = [header EXCEPT !.inner.s2_dst = S2Dst]
    /\ pc' = "L146"
    /\ UNCHANGED << payload, stage_2_sha256, inner_serialized, header_inner_sha256,
                    serialized, result, prev, requested >>

\* line 146
SetS2Size ==
    /\ pc = "L146"
    /\ LET r == u32_value_from(ByteLen(payload))
       IN IF r.ok
          THEN /\ header' = [header EXCEPT !.inner.s2_size = r.val]
               /\ pc' = "L148"
               /\ UNCHANGED << stage_2_sha256, inner_serialized,
                               header_inner_sha256, serialized, result >>
          ELSE Return(Err("TruncationError"))
    /\ UNCHANGED << payload, prev, requested >>

\* lines 148-149
SerializeInner ==
    /\ pc = "L148"
    /\ LET w == VecWrite(Bytes(<< >>), WriteInner(header.inner))
       IN IF w.ok
          THEN /\ inner_serialized' = w.vec
               /\ pc' = "L151"
               /\ UNCHANGED << header, stage_2_sha256, header_inner_sha256,
                               serialized, result >>
          ELSE Return(Err("IoError"))
    /\ UNCHANGED << payload, prev, requested >>

\* mutant: the digest of the whole header, its sha2_hdr still zero
HashInner_Whole ==
    /\ pc = "L151"
    /\ header_inner_sha256' = sha256_digest(Bytes(WriteHeader(header)))
    /\ pc' = "L152"
    /\ UNCHANGED << payload, header, stage_2_sha256, inner_serialized,
                    serialized, result, prev, requested >>

\* mutant: the digest of the inner header as it was before sha2_s2 was set
HashInner_Early ==
    /\ pc = "L151"
    /\ header_inner_sha256' =
           sha256_digest(Bytes(WriteInner([header.inner EXCEPT !.sha2_s2 = Sha2Default])))
    /\ pc' = "L152"
    /\ UNCHANGED << payload, header, stage_2_sha256, inner_serialized,
                    serialized, result, prev, requested >>

\* line 151
HashInner ==
    /\ pc = "L151"
    /\ header_inner_sha256' = sha256_digest(inner_serialized)
    /\ pc' = "L152"
    /\ UNCHANGED << payload, header, stage_2_sha256, inner_serialized,
                    serialized, result, prev, requested >>

\* lines 152-156
SetSha2Hdr ==
    /\ pc = "L152"
    /\ LET r == try_into(header_inner_sha256)
       IN IF r.ok
          THEN /\ header' = [header EXCEPT !.sha2_hdr = r.val]
               /\ pc' = "L158"
               /\ UNCHANGED << stage_2_sha256, inner_serialized,
                               header_inner_sha256, serialized, result >>
          ELSE Return(Err("HashError"))
    /\ UNCHANGED << payload, prev, requested >>

\* lines 158-159
SerializeHeader ==
    /\ pc = "L158"
    /\ LET w == VecWrite(Bytes(<< >>), WriteHeader(header))
       IN IF w.ok
          THEN /\ serialized' = w.vec
               /\ pc' = "L161"
               /\ UNCHANGED << header, stage_2_sha256, inner_serialized,
                               header_inner_sha256, result >>
          ELSE Return(Err("IoError"))
    /\ UNCHANGED << payload, prev, requested >>

\* lines 161-162
AppendPayload ==
    /\ pc = "L161"
    /\ Return(Ok(extend_from_slice(serialized, payload)))
    /\ UNCHANGED << payload, prev, requested >>

Next ==
    \/ \E p \in Payloads : Call(p)
    \/ HashPayload
    \/ SetSha2S2
    \/ SetS2Dst
    \/ SetS2Size
    \/ SerializeInner
    \/ HashInner
    \/ SetSha2Hdr
    \/ SerializeHeader
    \/ AppendPayload

Spec == Init /\ [][Next]_vars

\* calls one after the other, the last one remembered
NextPair ==
    \/ \E p \in Payloads : CallAgain(p)
    \/ HashPayload
    \/ SetSha2S2
    \/ SetS2Dst
    \/ SetS2Size
    \/ SerializeInner
    \/ HashInner
    \/ SetSha2Hdr
    \/ SerializeHeader
    \/ AppendPayload

SpecPair == Init /\ [][NextPair]_vars

\* calls by callers that would like one of the known variants
NextVariant ==
    \/ \E p \in Payloads, w \in KnownVariants : CallFor(p, w)
    \/ HashPayload
    \/ SetSha2S2
    \/ SetS2Dst
    \/ SetS2Size
    \/ SerializeInner
    \/ HashInner
    \/ SetSha2Hdr
    \/ SerializeHeader
    \/ AppendPayload

SpecVariant == Init /\ [][NextVariant]_vars

\* ------------------------------------------------------------- properties
Done == pc = "idle" /\ result.tag # "None"

Succeeded == Done /\ result.tag = "Ok"

out == result.buf

AllLit(s) == \A k \in 1..Len(s) : IsLit(s[k])

\* the value of four bytes read as a little-endian u32
read_le_u32(s) == Num(s[4].v * 256 + s[3].v, s[2].v * 256 + s[1].v)

\* n <= u32::MAX
FitsU32(n) == n.hi < U32Max.hi \/ (n.hi = U32Max.hi /\ n.lo <= U32Max.lo)

\* the encoding of the digested byte strings loses nothing
DecodeOK ==
    pc = "L152" => Decode(Term(inner_serialized).segs) = inner_serialized.head

\* C1: when generate_boot_dat succeeds, bytes 0xE0..0x100 of the buffer are
\* the digest of bytes 0x00..0xE0 of the same buffer
C1_HeaderDigestOfEmittedPrefix ==
    Succeeded =>
        /\ Len(out.head) >= 256
        /\ Slice(out, 224, 256) = sha256_digest(Bytes(Slice(out, 0, 224)))

C1_Witness ==
    /\ Succeeded
    /\ Len(payload.head) = MaxLen
    /\ Slice(out, 224, 256) = sha256_digest(Bytes(Slice(out, 0, 224)))

\* C2: when generate_boot_dat succeeds, bytes 0x10..0x30 of the buffer are
\* the digest of the payload, the empty payload included
C2_PayloadDigest ==
    /\ Succeeded => Slice(out, 16, 48) = sha256_digest(payload)
    /\ Done /\ payload = Bytes(<< >>) =>
           /\ result.tag = "Ok"
           /\ Slice(out, 16, 48) = sha256_digest(Bytes(<< >>))

C2_Witness ==
    /\ Succeeded
    /\ payload = Bytes(<< >>)
    /\ Slice(out, 16, 48) = sha256_digest(Bytes(<< >>))

\* C3: when generate_boot_dat succeeds, the buffer is a 256-byte header
\* followed by the payload: its length is 256 + len(p), its bytes from 0x100
\* on are p; the inner header serializes to 0xE0 bytes, the header to 256
C3_HeaderThenPayload ==
    /\ Succeeded =>
           /\ ByteLen(out) = AddSmall(ByteLen(payload), 256)
           /\ SliceFrom(out, 256) = payload
    /\ pc = "L151" => ByteLen(inner_serialized) = Num(0, 224)
    /\ pc = "L161" => ByteLen(serialized) = Num(0, 256)

C3_Witness ==
    /\ Succeeded
    /\ Len(payload.head) = MaxLen
    /\ payload.rep = Num(0, 1024)
    /\ SliceFrom(out, 256) = payload

\* C4: for a payload shorter than 2^32, generate_boot_dat succeeds and bytes
\* 0x34..0x38 of the buffer, read as a little-endian u32, are len(p)
C4_SizeLittleEndian ==
    Done /\ ByteLen(payload).hi < Limb =>
        /\ result.tag = "Ok"
        /\ AllLit(Slice(out, 52, 56))
        /\ read_le_u32(Slice(out, 52, 56)) = ByteLen(payload)

C4_Witness ==
    /\ Succeeded
    /\ ByteLen(payload) = Num(0, 1025)
    /\ Slice(out, 52, 56) = << B(1), B(4), B(0), B(0) >>

\* C5: when generate_boot_dat succeeds, bytes 0x00..0x0C are "Insane BOOT\0",
\* bytes 0x0C..0x10 are "V1.0" and bytes 0x30..0x34 read as a little-endian
\* u32 are 0x40010000, whatever the payload
C5_ConstantFields ==
    Succeeded =>
        /\ Slice(out, 0, 12) = Lits(<< 73, 110, 115, 97, 110, 101, 32, 66, 79, 79, 84, 0 >>)
        /\ Slice(out, 12, 16) = Lits(<< 86, 49, 46, 48 >>)
        /\ AllLit(Slice(out, 48, 52))
        /\ read_le_u32(Slice(out, 48, 52)) = Num(16385, 0)

C5_Witness ==
    /\ Succeeded
    /\ payload.rep = U32Max
    /\ Slice(out, 48, 52) = << B(0), B(0), B(1), B(64) >>
    /\ out.head[12] = B(0)

\* C6: when generate_boot_dat succeeds, the reserved bytes 0x38..0xE0 of the
\* buffer (s2_enc, pad, s3_size, pad2) are all zero
C6_ReservedZero ==
    Succeeded => \A k \in 56..223 : out.head[k + 1] = B(0)

C6_Witness ==
    /\ Succeeded
    /\ Len(payload.head) = MaxLen
    /\ payload.rep = Num(0, 1024)
    /\ out.head[224] = B(0)

\* C7: generate_boot_dat fails with TruncationError exactly when the length
\* of the payload is above u32::MAX; a length up to 2^32 - 1 succeeds
C7_TruncationIffTooLong ==
    Done =>
        /\ (result.tag = "Err" /\ result.err = "TruncationError") <=> ~FitsU32(ByteLen(payload))
        /\ FitsU32(ByteLen(payload)) <=> result.tag = "Ok"

\* a call with 2^32 - 1 bytes succeeded, then a call with 2^32 bytes failed
C7_Witness ==
    /\ Done
    /\ prev.made
    /\ ByteLen(prev.payload) = Num(Limb - 1, Limb - 1)
    /\ prev.result.tag = "Ok"
    /\ ByteLen(payload) = Num(Limb, 0)
    /\ result = Err("TruncationError")

\* the identification bytes of a variant
Tag(w) == IF w = "B" THEN Lits(IdentB \o VersB) ELSE Lits(IdentA \o VersA)

\* C8 as stated: both known variants can be had; a caller that would like
\* variant B gets a buffer that starts with "CTCaer BOOT\0" "V2.5"
C8_BothVariantsOffered ==
    Succeeded => Slice(out, 0, 16) = Tag(requested)

\* C8 amended: only variant A is emitted; whatever variant the caller would
\* like, a buffer starts with "Insane BOOT\0" "V1.0" and never with the
\* constants of variant B
C8_OnlyVariantA ==
    Succeeded =>
        /\ Slice(out, 0, 16) = Tag("A")
        /\ Slice(out, 0, 12) # Lits(IdentB)
        /\ Slice(out, 12, 16) # Lits(VersB)

C8_Witness ==
    /\ Succeeded
    /\ requested = "B"
    /\ Slice(out, 0, 16) = Tag("A")

\* C9: a call ends with Ok and the whole buffer of 256 + len(p) bytes, or
\* with an error and no buffer; no result exists while the call runs; the
\* error is TruncationError, never HashError or IoError
C9_Outcomes ==
    /\ pc # "idle" => result = NoResult
    /\ Done =>
          \/ /\ result.tag = "Ok"
             /\ result.err = "None"
             /\ ByteLen(result.buf) = AddSmall(ByteLen(payload), 256)
          \/ /\ result.tag = "Err"
             /\ result.buf = Bytes(<< >>)
             /\ result.err = "TruncationError"
    /\ pc \in { "L144", "L152" } => Len(IF pc = "L144" THEN stage_2_sha256
                                        ELSE header_inner_sha256) = 32

C9_Witness ==
    /\ Done
    /\ result.tag = "Err"
    /\ result.err = "TruncationError"
    /\ result.buf = Bytes(<< >>)
    /\ Len(payload.head) = MaxLen

\* payloads of equal length that differ in exactly one byte
OneByteApart(p, q) ==
    /\ p.rep = q.rep
    /\ Len(p.head) = Len(q.head)
    /\ Cardinality({ k \in 1..Len(p.head) : p.head[k] # q.head[k] }) = 1

\* C10: the buffers of two payloads of equal length that differ in exactly
\* one byte differ in bytes 0x10..0x30 and in bytes 0xE0..0x100
C10_DigestsAuthenticatePayload ==
    /\ Done /\ prev.made
    /\ result.tag = "Ok" /\ prev.result.tag = "Ok"
    /\ OneByteApart(prev.payload, payload)
    => /\ Slice(out, 16, 48) # Slice(prev.result.buf, 16, 48)
       /\ Slice(out, 224, 256) # Slice(prev.result.buf, 224, 256)

C10_Witness ==
    /\ Done /\ prev.made
    /\ result.tag = "Ok" /\ prev.result.tag = "Ok"
    /\ OneByteApart(prev.payload, payload)
    /\ Len(payload.head) = MaxLen
    /\ payload.rep = Num(0, 1024)
    /\ Slice(out, 224, 256) # Slice(prev.result.buf, 224, 256)

====
